---- MODULE Spec2Model ----
(***************************************************************************)
(* The upload worker of nextjs-upload: UploadHandler (uploadHandler.ts),   *)
(* ApiClient (apiClient.ts), DatabaseService (databaseService.ts) and the  *)
(* service worker's listeners (serviceWorker.ts).                          *)
(*                                                                         *)
(* The worker is single-threaded: a handler runs without interruption from *)
(* one suspension point (an awaited network response, IndexedDB request or *)
(* timer) to the next.  One action of the model is one such run.  An       *)
(* IndexedDB request takes effect, in order, when it is issued; its        *)
(* completion is a later step of the task that awaits it.                  *)
(***************************************************************************)
EXTENDS Integers, Sequences, FiniteSets, TLC

\* ---------------------------------------------------------------- bounds
NumContents == 2
MaxUploads == 1
MaxTasks == 3
FileSize == 3
PartSize == 2
MaxFaults == 1
MaxPutFaults == 3
MaxStarts == 2
ChunkConcurrent == 1

\* CONFIG.RETRY.ATTEMPTS
RETRY_ATTEMPTS == 3

\* CONFIG.MAX_CONCURRENT_UPLOADS
MAX_CONCURRENT_UPLOADS == 5

Contents == 1..NumContents
Tasks == 1..MaxTasks

\* const totalParts = Math.ceil(file.size / partSize)
totalParts == (FileSize + PartSize - 1) \div PartSize

Parts == 1..totalParts

\* Math.round((completedParts / totalParts) * 100)
Progress(completedParts) == (200 * completedParts + totalParts) \div (2 * totalParts)

\* ----------------------------------------------------------------- state
VARIABLES
  activeUploads,  \* the registry: per contentId the task whose (state, controller) pair is set, 0 if absent
  uploads,        \* the uploads object store, keyed by id (= contentId)
  tasks,          \* the asynchronous handler invocations and where each is suspended
  states,         \* the UploadState objects in memory, by the task that created them
  controllers,    \* signal.aborted of the AbortController paired with each of those objects
  serverParts,    \* the parts the object store has accepted, per upload
  dbQueue,        \* the tasks awaiting an IndexedDB request, oldest first
  nextTask,       \* the next unused task
  accelerationEndpoint,  \* ApiClient.accelerationEndpoint is set (one ApiClient serves all uploads)
  hist            \* what has been observed so far (events broadcast, requests issued)

vars ==
  <<activeUploads, uploads, tasks, states, controllers, serverParts, dbQueue, nextTask,
    accelerationEndpoint, hist>>

\* An UploadState, reduced to the fields the handlers change; status "none" is no record.
NoState == [status |-> "none", parts |-> <<>>, progress |-> 0, maxConcurrentUploads |-> 0]

NoTask ==
  [kind |-> "idle", pc |-> "idle", c |-> 0, pn |-> 0, rc |-> 0, fr |-> 0, cp |-> 0,
   skip |-> {}, snap |-> [c \in Contents |-> NoState], err |-> "none", hit |-> FALSE,
   puts |-> 0, late |-> FALSE, reg |-> FALSE, big |-> FALSE, retrying |-> <<>>]

ScanKinds == {"activate", "online", "getActive"}

\* The part-driving loop (uploadParts) of a task is running at these suspension points.
DriverPcs ==
  {"list", "sign", "put", "fetchDelay", "retryDelay", "savePart", "savePartFailed",
   "errSave", "complete", "saveDone"}

InitHist ==
  [lastEvent |-> [c \in Contents |-> "none"],
   lastProgress |-> [c \in Contents |-> -1],
   initiateResponse |-> [c \in Contents |-> 0],
   cancelled |-> [c \in Contents |-> FALSE],
   cancelIgnored |-> [c \in Contents |-> FALSE],
   retryAfterFire |-> [c \in Contents |-> FALSE],
   errorAfterFire |-> [c \in Contents |-> FALSE],
   errorRepeated |-> [c \in Contents |-> FALSE],
   partFailed |-> [c \in Contents |-> FALSE],
   completeFailed |-> [c \in Contents |-> FALSE],
   initiateFailed |-> FALSE,
   initiateFailedBeside |-> FALSE,
   startFatal |-> FALSE,
   errorNotRetryable |-> FALSE,
   resumeDropped |-> [c \in Contents |-> FALSE],
   errorResumeDropped |-> [c \in Contents |-> FALSE],
   resumeOverRegistered |-> [c \in Contents |-> FALSE],
   scanAbandoned |-> [c \in Contents |-> FALSE],
   atRestart |-> [c \in Contents |-> "none"],
   activated |-> FALSE,
   statusStale |-> [c \in Contents |-> FALSE],
   large |-> [c \in Contents |-> FALSE],
   ownEndpoint |-> [c \in Contents |-> FALSE],
   urlWrong |-> [c \in Contents |-> FALSE],
   noETag |-> [c \in Contents |-> FALSE],
   refused |-> [c \in Contents |-> FALSE],
   saved0 |-> [c \in Contents |-> FALSE],
   chunkUploaded |-> [c \in Contents |-> {}],
   uploadedBytes |-> [c \in Contents |-> 0],
   activateDrives |-> [c \in Contents |-> 0],
   errorEmitted |-> [c \in Contents |-> FALSE],
   completeEmitted |-> [c \in Contents |-> FALSE],
   afterComplete |-> [c \in Contents |-> FALSE],
   acked |-> [c \in Contents |-> {}],
   ackedAtPause |-> [c \in Contents |-> {}],
   resumed |-> [c \in Contents |-> FALSE],
   putAfterResume |-> [c \in Contents |-> [p \in Parts |-> 0]],
   putOk |-> [c \in Contents |-> [p \in Parts |-> 0]],
   resumes |-> [c \in Contents |-> 0],
   scans |-> 0,
   started |-> 0,
   assigned |-> 0,
   faults |-> 0,
   putFaults |-> 0]

Init ==
  /\ activeUploads = [c \in Contents |-> 0]
  /\ uploads = [c \in Contents |-> NoState]
  /\ tasks = [t \in Tasks |-> NoTask]
  /\ states = [t \in Tasks |-> [c \in Contents |-> NoState]]
  /\ controllers = [t \in Tasks |-> [c \in Contents |-> FALSE]]
  /\ serverParts = [c \in Contents |-> {}]
  /\ dbQueue = <<>>
  /\ nextTask = 1
  /\ accelerationEndpoint = FALSE
  /\ hist = InitHist

\* The state as one value, so that a handler is an operator from state to state.
St ==
  [activeUploads |-> activeUploads, uploads |-> uploads, tasks |-> tasks,
   states |-> states, controllers |-> controllers, serverParts |-> serverParts,
   dbQueue |-> dbQueue, nextTask |-> nextTask,
   accelerationEndpoint |-> accelerationEndpoint, hist |-> hist]

Live(s, t) == s.tasks[t].pc \notin {"idle", "done"}

\* Objects no handler and no registry entry refers to any more are dropped.
Collect(s) ==
  [s EXCEPT
    !.states = [t \in Tasks |-> [c \in Contents |->
        IF (Live(s, t) /\ s.tasks[t].c = c) \/ s.activeUploads[c] = t
        THEN s.states[t][c] ELSE NoState]],
    !.controllers = [t \in Tasks |-> [c \in Contents |->
        IF (Live(s, t) /\ s.tasks[t].c = c) \/ s.activeUploads[c] = t
        THEN s.controllers[t][c] ELSE FALSE]]]

Apply(s0) ==
  LET s == Collect(s0) IN
  /\ activeUploads' = s.activeUploads
  /\ uploads' = s.uploads
  /\ tasks' = s.tasks
  /\ states' = s.states
  /\ controllers' = s.controllers
  /\ serverParts' = s.serverParts
  /\ dbQueue' = s.dbQueue
  /\ nextTask' = s.nextTask
  /\ accelerationEndpoint' = s.accelerationEndpoint
  /\ hist' = s.hist

Goto(s, t, pc) == [s EXCEPT !.tasks[t].pc = pc]

\* The task awaits an IndexedDB request.  Requests on the uploads store are served in
\* the order they were made, so they complete in that order.
DbWait(s, t, pc) == [s EXCEPT !.tasks[t].pc = pc, !.dbQueue = Append(@, t)]

\* The handler invocation ends (returns, or its exception reaches handleMessage's catch).
Finish(s, t) == [s EXCEPT !.tasks[t] = [NoTask EXCEPT !.pc = "done"]]

Cap(n) == IF n >= 2 THEN 2 ELSE n + 1

\* ------------------------------------------------------------ logger.ts
\* broadcast(message): every event goes to all clients, in the order of the calls.
broadcast(s, c, type, progress) ==
  [s EXCEPT !.hist =
     [@ EXCEPT
        !.lastEvent[c] = IF type = "UPLOAD_STATUS" THEN @ ELSE type,
        !.lastProgress[c] = IF type = "UPLOAD_PROGRESS" THEN progress ELSE @,
        !.cancelled[c] = @ \/ type = "UPLOAD_CANCELLED",
        !.errorEmitted[c] = @ \/ type = "UPLOAD_ERROR",
        !.completeEmitted[c] = @ \/ type = "UPLOAD_COMPLETE",
        !.afterComplete[c] =
            @ \/ (/\ s.hist.completeEmitted[c]
                  /\ type \in {"UPLOAD_PAUSED", "UPLOAD_ERROR", "UPLOAD_PROGRESS",
                               "UPLOAD_COMPLETE"})]]

\* --------------------------------------------------- databaseService.ts
\* store.put(state): the record with key state.id is replaced by a copy of the object.
saveUploadState(s, t, c) == [s EXCEPT !.uploads[c] = s.states[t][c]]

\* store.delete(contentId)
deleteUploadState(s, c) == [s EXCEPT !.uploads[c] = NoState]

\* store.get(id): a copy of the record, or undefined.
loadUploadState(s, c) == s.uploads[c]

\* store.getAll()
loadAllUploadStates(s) == s.uploads

\* ---------------------------------------------------------- apiClient.ts
\* A getUploadedParts that never learns of a stored part: every resume starts from
\* part 1 as if nothing had been uploaded.
getUploadedPartsForgetful(s, c, ok) == {}

\* listUploadedParts as seen by getUploadedParts: the server's parts, or [] when the
\* request fails (the catch of getUploadedParts returns an empty list).
getUploadedParts(s, c, ok) == IF ok THEN s.serverParts[c] ELSE {}

\* crypto.randomUUID() in the invocation t of initializeNewUpload: an identifier drawn
\* in the worker, equal to no content id the server assigns (those are 1, 2, ...) and
\* to no other draw.  In hist.initiateResponse 0 is "no event yet".
randomUUID(t) == 0 - t

\* CONFIG.S3_TRANSFER_ACCELERATION.ENABLED
S3_TRANSFER_ACCELERATION_ENABLED == TRUE

\* shouldUseAcceleration(fileSize); `big` is fileSize >= S3_TRANSFER_ACCELERATION.MIN_SIZE.
shouldUseAcceleration(big) == S3_TRANSFER_ACCELERATION_ENABLED /\ big

\* transformToAcceleratedUrl(url): whether the host of the signed URL is replaced.
transformToAcceleratedUrl(s) == s.accelerationEndpoint

\* initiateMultipartUpload after the response arrived: the endpoint it names, if any,
\* is kept in the ApiClient.
initiateMultipartUpload(s, t, c, endpoint) ==
  [s EXCEPT !.accelerationEndpoint = IF endpoint THEN TRUE ELSE @,
            !.hist.assigned = c,
            !.hist.large[c] = s.tasks[t].big,
            !.hist.ownEndpoint[c] = endpoint]

\* ------------------------------------------------------------- errors.ts
\* The exceptions, by where they are thrown: "timedOut" is RetryableError("Request timed
\* out") of fetchWithTimeout, "failedPart" is RetryableError("Failed to upload part") of
\* ApiClient.uploadPart, "fatal" is FatalError, "error" is a plain Error, "storage" is
\* the DOMException of a rejected IndexedDB request.
IsRetryableError(err) == err \in {"timedOut", "failedPart"}

\* -------------------------------------------------------- uploadHandler.ts
\* loadOngoingUploads resumes the records in_progress; resumeAllUploads and
\* handleGetActiveUploads those paused or in_progress.
Selected(kind, status) ==
  IF kind = "activate" THEN status = "in_progress"
  ELSE status \in {"paused", "in_progress"}

\* handleUploadError up to its await: UPLOAD_ERROR is broadcast, and if the contentId
\* is registered the registered state is marked error and saved.
handleUploadError(s, c, err) ==
  LET s0 == [s EXCEPT !.hist.errorNotRetryable = @ \/ ~IsRetryableError(err)]
      s1 == broadcast(s0, c, "UPLOAD_ERROR", 0)
      r == s1.activeUploads[c]
  IN IF r # 0
     THEN [s |-> saveUploadState([s1 EXCEPT !.states[r][c].status = "error"], r, c),
           awaits |-> TRUE]
     ELSE [s |-> s1, awaits |-> FALSE]

\* The catch of handleResume: await this.handleUploadError(contentId, error).  The
\* error may be the one the catch of uploadParts has already passed to
\* handleUploadError and rethrown (tasks[t].err); hist.errorRepeated records that a
\* failure of a drive whose token was not fired got its UPLOAD_ERROR a second time.
handleResumeCatch(s, t, err) ==
  LET c == s.tasks[t].c
      e == handleUploadError(
             [s EXCEPT !.hist.errorRepeated[c] =
                         @ \/ (s.tasks[t].err # "none" /\ ~s.tasks[t].hit)],
             c, err) IN
  IF e.awaits THEN DbWait(e.s, t, "resumeErrSave") ELSE Finish(e.s, t)

\* An exception leaves handleUpload / resumeUpload: handleResume catches it; for
\* START_UPLOAD and GET_ACTIVE_UPLOADS handleMessage logs it; the activate and online
\* listeners leave it unhandled.  A scan ends with it: the records after the one whose
\* resume threw are not reached by the loop.
Throw(s, t, err) ==
  LET kind == s.tasks[t].kind IN
  IF kind = "resume" THEN handleResumeCatch(s, t, err)
  ELSE Finish([s EXCEPT !.hist.startFatal = @ \/ (kind = "start" /\ err = "fatal"),
                        !.hist.scanAbandoned = [c \in Contents |->
                            @[c] \/ (/\ kind \in {"activate", "online"}
                                     /\ c > s.tasks[t].c
                                     /\ Selected(kind, s.tasks[t].snap[c].status)
                                     /\ s.activeUploads[c] = 0)]], t)

\* The catch of uploadParts: await this.handleUploadError(contentId, error); throw error
uploadPartsCatch(s, t, err) ==
  LET c == s.tasks[t].c
      e == handleUploadError([s EXCEPT !.hist.errorAfterFire[c] = @ \/ s.tasks[t].hit,
                                       !.hist.partFailed[c] =
                                           @ \/ (~s.controllers[t][c] /\ err # "storage")],
                             c, err) IN
  IF e.awaits THEN DbWait([e.s EXCEPT !.tasks[t].err = err], t, "errSave")
  ELSE Throw([e.s EXCEPT !.tasks[t].err = err], t, err)

\* A backoff that grows by one second per retry instead of doubling.
nextAttemptDelayLinear(retryCount) == 1000 * (retryCount + 1)

\* const delay = Math.min(1000 * Math.pow(2, retryCount), 30000)
nextAttemptDelay(retryCount) ==
  IF 1000 * 2 ^ retryCount < 30000 THEN 1000 * 2 ^ retryCount ELSE 30000

\* The catch of UploadHandler.uploadPart: a RetryableError is retried while
\* retryCount < CONFIG.RETRY.ATTEMPTS, after RETRYING_CHUNK (attempt: retryCount + 1,
\* nextAttemptDelay: delay) and the delay.  `retrying` keeps the RETRYING_CHUNK events
\* of the part at hand as <<attempt, nextAttemptDelay>>.
uploadPartCatch(s, t, err) ==
  LET c == s.tasks[t].c
      retryCount == s.tasks[t].rc IN
  IF retryCount < RETRY_ATTEMPTS /\ IsRetryableError(err)
  THEN LET s1 == broadcast(s, c, "RETRYING_CHUNK", 0) IN
       Goto([s1 EXCEPT !.hist.retryAfterFire[c] = @ \/ s.tasks[t].hit,
                       !.tasks[t].retrying =
                           Append(@, <<retryCount + 1, nextAttemptDelay(retryCount)>>)],
            t, "retryDelay")
  ELSE uploadPartsCatch(s, t, err)

\* The catch of ApiClient.fetchWithRetry: a RetryableError is retried after
\* CONFIG.RETRY.DELAY while retries > 0, otherwise rethrown to UploadHandler.uploadPart.
\* An aborted signal stays aborted, so every remaining attempt fails at once in the
\* same way and nothing but `retries` changes between them: the remaining
\* CONFIG.RETRY.DELAY timers are then one wait.
fetchWithRetryCatch(s, t, retries) ==
  IF retries > 0
  THEN Goto([s EXCEPT !.tasks[t].fr = IF s.controllers[t][s.tasks[t].c] THEN 1 ELSE retries],
            t, "fetchDelay")
  ELSE uploadPartCatch([s EXCEPT !.tasks[t].fr = 0], t, "timedOut")

\* ApiClient.fetchWithRetry -> fetchWithTimeout for the part PUT: with the signal already
\* aborted fetch rejects with AbortError at once, which fetchWithTimeout turns into
\* RetryableError("Request timed out"); otherwise the request is in flight.
fetchWithRetry(s, t, retries) ==
  LET c == s.tasks[t].c
      p == s.tasks[t].pn IN
  IF s.controllers[t][c]
  THEN fetchWithRetryCatch(s, t, retries)
  ELSE Goto([s EXCEPT !.tasks[t].fr = retries,
                      !.tasks[t].puts = @ + 1,
                      !.hist.afterComplete[c] = @ \/ s.hist.completeEmitted[c],
                      !.hist.putAfterResume[c][p] =
                          IF s.hist.resumed[c] THEN Cap(@) ELSE @], t, "put")

\* ApiClient.uploadPart: the signed URL is requested first, without the abort signal.
apiUploadPart(s, t) ==
  Goto(s, t, "sign")

\* completeUpload up to the await of completeMultipartUpload.
completeUpload(s, t) == Goto(s, t, "complete")

\* The for loop of uploadParts from partNumber = from: the first part not in
\* uploadedPartNumbers is uploaded; with none left the upload is completed.
uploadLoop(s, t, from) ==
  LET todo == {p \in from..totalParts : p \notin s.tasks[t].skip} IN
  IF todo = {} THEN completeUpload(s, t)
  ELSE LET p == CHOOSE q \in todo : \A r \in todo : q <= r IN
       apiUploadPart([s EXCEPT !.tasks[t].pn = p, !.tasks[t].rc = 0, !.tasks[t].hit = FALSE,
                          !.tasks[t].puts = 0, !.tasks[t].retrying = <<>>], t)

\* uploadParts up to the await of getUploadedParts.
uploadParts(s, t) == Goto(s, t, "list")

\* uploadParts after getUploadedParts returned: uploadedPartNumbers and completedParts
\* come from the returned list alone.
uploadPartsListed(s, t, listed) ==
  uploadLoop([s EXCEPT !.tasks[t].skip = listed, !.tasks[t].cp = Cardinality(listed)], t, 1)

\* A part PUT succeeded: CHUNK_UPLOADED; uploadState.parts.push(part); completedParts++;
\* progress; await saveUploadState(uploadState).  With `stored` false the store.put
\* is going to fail and leaves the record as it was.
partUploaded(s, t, stored) ==
  LET c == s.tasks[t].c
      p == s.tasks[t].pn
      cp == s.tasks[t].cp + 1
      s1 == broadcast([s EXCEPT !.hist.chunkUploaded[c] = @ \cup {p}], c, "CHUNK_UPLOADED", 0)
      s2 == [s1 EXCEPT !.states[t][c].parts = Append(@, p),
                       !.states[t][c].progress = Progress(cp),
                       !.tasks[t].cp = cp, !.tasks[t].rc = 0, !.tasks[t].fr = 0,
                       !.tasks[t].puts = 0]
  IN IF stored THEN DbWait(saveUploadState(s2, t, c), t, "savePart")
     ELSE DbWait(s2, t, "savePartFailed")

\* broadcastProgress: UPLOAD_PROGRESS with uploadedBytes = completedParts * partSize and
\* totalBytes = fileSize.
broadcastProgress(s, c, progress, completedParts) ==
  broadcast([s EXCEPT !.hist.uploadedBytes[c] = completedParts * PartSize],
            c, "UPLOAD_PROGRESS", progress)

\* After that save: broadcastProgress, then the next iteration of the loop.
partSaved(s, t) ==
  LET c == s.tasks[t].c
      s1 == broadcastProgress(s, c, Progress(s.tasks[t].cp), s.tasks[t].cp)
  IN uploadLoop(s1, t, s.tasks[t].pn + 1)

\* completeUpload after completeMultipartUpload returned: status completed, save.
completeUploadDone(s, t) ==
  LET c == s.tasks[t].c IN
  DbWait(saveUploadState([s EXCEPT !.states[t][c].status = "completed"], t, c), t, "saveDone")

\* completeUpload after that save: UPLOAD_COMPLETE; activeUploads.delete(contentId).
completeUploadSaved(s, t) ==
  LET c == s.tasks[t].c
      s1 == broadcast(s, c, "UPLOAD_COMPLETE", 0)
  IN [s1 EXCEPT !.activeUploads[c] = 0]

\* After resumeUpload returned in the loop of handleGetActiveUploads: UPLOAD_STATUS
\* with upload.status, read now from the loaded object; `status` is that value.
afterResumeUpload(s, t, c, status) ==
  IF s.tasks[t].kind = "getActive"
  THEN broadcast([s EXCEPT !.hist.statusStale[c] =
                     @ \/ status # s.tasks[t].snap[c].status], c, "UPLOAD_STATUS", 0)
  ELSE s

\* resumeUpload when the contentId is not registered: a new controller, the loaded
\* state is registered as it is, and uploadParts runs on it.
resumeUpload(s, t, c) ==
  uploadParts([s EXCEPT !.activeUploads[c] = t,
                        !.states[t][c] = s.tasks[t].snap[c],
                        !.controllers[t][c] = FALSE,
                        !.tasks[t].c = c,
                        !.hist.activateDrives[c] =
                            IF s.tasks[t].kind = "activate" THEN Cap(@) ELSE @], t)

\* The loops of loadOngoingUploads, resumeAllUploads and handleGetActiveUploads over the
\* loaded records from index `from`: each selected record is resumed and awaited in
\* turn; a record already registered makes resumeUpload return at once.
RECURSIVE scanLoop(_, _, _)
scanLoop(s, t, from) ==
  LET sel == {c \in Contents : c >= from /\ Selected(s.tasks[t].kind, s.tasks[t].snap[c].status)} IN
  IF sel = {} THEN Finish(s, t)
  ELSE LET c == CHOOSE d \in sel : \A e \in sel : d <= e IN
       IF s.activeUploads[c] # 0
       THEN scanLoop(afterResumeUpload(s, t, c, s.tasks[t].snap[c].status), t, c + 1)
       ELSE resumeUpload(s, t, c)

\* uploadParts returned normally: handleUpload returns, or the scan goes on.  The object
\* the scan loaded is the one resumeUpload registered and the driver changed.
afterUploadParts(s, t) ==
  LET c == s.tasks[t].c IN
  IF s.tasks[t].kind \in ScanKinds
  THEN scanLoop(afterResumeUpload(s, t, c, s.states[t][c].status), t, c + 1)
  ELSE Finish(s, t)

\* A handleUpload that drives the parts without waiting for, or making, the first save.
handleUploadUnsaved(s, t, c, stored) ==
  [s EXCEPT !.activeUploads[c] = t, !.controllers[t][c] = FALSE, !.tasks[t].c = c,
            !.tasks[t].pc = "list"]

\* handleUpload from "Set up upload tracking": a new AbortController, the state is
\* registered (whatever is registered already), then saved.  With `stored` false the
\* store.put is going to fail and leaves the store as it was.
handleUpload(s, t, c, stored) ==
  LET s1 == [s EXCEPT !.activeUploads[c] = t, !.controllers[t][c] = FALSE, !.tasks[t].c = c]
  IN IF stored THEN DbWait(saveUploadState(s1, t, c), t, "save0")
     ELSE DbWait(s1, t, "save0Failed")

\* chunkConfig?.concurrent ?? CONFIG.MAX_CONCURRENT_UPLOADS; 0 stands for a START_UPLOAD
\* without chunkConfig.concurrent.
maxConcurrentUploads(concurrent) ==
  IF concurrent = 0 THEN MAX_CONCURRENT_UPLOADS ELSE concurrent

\* initializeNewUpload after initiateMultipartUpload returned content.id = c:
\* INITIATE_UPLOAD_RESPONSE carries the locally drawn crypto.randomUUID(); the state is
\* built with id = contentId = content.id.
initializeNewUpload(s, t, c) ==
  [s EXCEPT !.hist.initiateResponse[c] = randomUUID(t),
            !.states[t][c] = [status |-> "in_progress", parts |-> <<>>, progress |-> 0,
                              maxConcurrentUploads |-> maxConcurrentUploads(ChunkConcurrent)]]

\* handlePause: no-op when the contentId is not registered; otherwise the controller
\* is aborted, the registered state marked paused and saved.
handlePause(s, t, c) ==
  LET r == s.activeUploads[c]
      s0 == [s EXCEPT !.tasks[t] = [NoTask EXCEPT !.kind = "pause", !.c = c]]
  IN IF r = 0 THEN Finish(s0, t)
     ELSE LET s1 == [s0 EXCEPT !.controllers[r][c] = TRUE,
                               !.states[r][c].status = "paused",
                               !.hist.ackedAtPause[c] =
                                   IF s.hist.resumed[c] THEN @ ELSE s.hist.acked[c]]
          IN DbWait(saveUploadState(s1, r, c), t, "pauseSave")

\* handlePause after the save: UPLOAD_PAUSED; activeUploads.delete(contentId).
handlePauseSaved(s, t) ==
  LET c == s.tasks[t].c IN
  Finish([broadcast(s, c, "UPLOAD_PAUSED", 0) EXCEPT !.activeUploads[c] = 0], t)

\* handleResume up to the await of loadUploadState.
handleResume(s, t, c) ==
  DbWait([s EXCEPT !.tasks[t] = [NoTask EXCEPT !.kind = "resume", !.c = c,
                                             !.late = s.hist.completeFailed[c],
                                             !.reg = s.activeUploads[c] # 0],
                 !.states[t][c] = loadUploadState(s, c),
                 !.hist.resumes[c] = Cap(@)], t, "resumeLoad")

\* handleResume after the load: only a paused record is resumed; it is saved in_progress.
handleResumeLoaded(s, t) ==
  LET c == s.tasks[t].c IN
  IF s.states[t][c].status # "paused"
  THEN Finish([s EXCEPT !.hist.errorResumeDropped[c] =
                 @ \/ s.states[t][c].status = "error",
                        !.hist.resumeDropped[c] =
                 @ \/ (/\ s.tasks[t].late
                       /\ s.states[t][c].status \in {"in_progress", "error"}
                       /\ \A u \in Tasks : s.tasks[u].c = c => s.tasks[u].pc \notin DriverPcs)],
              t)
  ELSE DbWait(saveUploadState([s EXCEPT !.states[t][c].status = "in_progress"], t, c),
            t, "resumeSave")

\* handleResume after the save: handleUpload -> getUploadStateForResume loads again.
getUploadStateForResume(s, t) ==
  LET c == s.tasks[t].c IN
  DbWait([s EXCEPT !.states[t][c] = loadUploadState(s, c)], t, "resumeLoad2")

\* getUploadStateForResume after the load: "No upload state found to resume" is thrown
\* when the record is gone; otherwise handleUpload goes on with the loaded state.
handleUploadResumed(s, t) ==
  LET c == s.tasks[t].c IN
  IF s.states[t][c].status = "none" THEN handleResumeCatch(s, t, "error")
  ELSE handleUpload([s EXCEPT !.hist.resumed[c] = TRUE,
                              !.hist.resumeOverRegistered[c] =
                                  @ \/ (s.tasks[t].reg /\ s.activeUploads[c] # 0)], t, c, TRUE)

\* handleCancel: no-op when the contentId is not registered; otherwise the controller
\* is aborted and the record deleted.
handleCancel(s, t, c) ==
  LET r == s.activeUploads[c]
      s0 == [s EXCEPT !.tasks[t] = [NoTask EXCEPT !.kind = "cancel", !.c = c]]
  IN IF r = 0
     THEN Finish([s0 EXCEPT !.hist.cancelIgnored[c] = @ \/ s.uploads[c].status # "none"], t)
     ELSE DbWait(deleteUploadState([s0 EXCEPT !.controllers[r][c] = TRUE], c),
               t, "cancelDelete")

\* handleCancel after cancelUpload returned or threw (the failure is only logged):
\* UPLOAD_CANCELLED; activeUploads.delete(contentId).
handleCancelDone(s, t) ==
  LET c == s.tasks[t].c IN
  Finish([broadcast(s, c, "UPLOAD_CANCELLED", 0) EXCEPT !.activeUploads[c] = 0], t)

\* loadOngoingUploads / resumeAllUploads / handleGetActiveUploads up to the await of
\* loadAllUploadStates.
scan(s, t, kind) ==
  DbWait([s EXCEPT !.tasks[t] = [NoTask EXCEPT !.kind = kind,
                                             !.snap = loadAllUploadStates(s)],
                 !.hist.scans = Cap(@),
                 !.hist.activated = @ \/ kind = "activate"],
       t, "scanLoad")

\* ---------------------------------------------------------------- actions
Spawn(s) == [s EXCEPT !.nextTask = @ + 1]

At(t, pc) == tasks[t].pc = pc

\* The oldest IndexedDB request is the one task t awaits at pc; it completes.
AtDb(t, pc) == tasks[t].pc = pc /\ dbQueue # <<>> /\ Head(dbQueue) = t

StDb == [St EXCEPT !.dbQueue = Tail(@)]

Fault(s) == [s EXCEPT !.hist.faults = @ + 1]

PutFault(s) == [s EXCEPT !.hist.putFaults = @ + 1]

\* message START_UPLOAD: handleUpload -> initializeNewUpload awaits
\* initiateMultipartUpload, whose request carries useAcceleration for the file's size.
startUpload(s, t, big) ==
  Goto([s EXCEPT !.tasks[t] = [NoTask EXCEPT !.kind = "start", !.big = big],
                 !.hist.started = @ + 1], t, "initiate")

\* START_UPLOAD of a file below S3_TRANSFER_ACCELERATION.MIN_SIZE.
StartUpload ==
  /\ nextTask <= MaxTasks
  /\ hist.started < MaxStarts
  /\ Apply(startUpload(Spawn(St), nextTask, FALSE))

\* The answers of the server to the initiate request of task t: it names an acceleration
\* endpoint only if the request asked for acceleration.
Endpoints(t) == IF shouldUseAcceleration(tasks[t].big) THEN BOOLEAN ELSE {FALSE}

\* initializeNewUpload and handleUpload after initiateMultipartUpload returned.
initiateReturned(s, t, c, endpoint, stored) ==
  handleUpload(initializeNewUpload(initiateMultipartUpload(s, t, c, endpoint), t, c),
               t, c, stored)

\* initiateMultipartUpload returns the server-assigned content id.
InitiateReturns ==
  \E t \in Tasks :
    /\ At(t, "initiate")
    /\ \E c \in Contents :
         /\ hist.assigned < MaxUploads
         /\ c = hist.assigned + 1
         /\ \E endpoint \in Endpoints(t) : Apply(initiateReturned(St, t, c, endpoint, TRUE))

\* An initializeNewUpload that announces the upload before the request is answered.
initiateFailedAnnounced(s, t) ==
  Throw([s EXCEPT !.hist.initiateFailed = TRUE,
                  !.hist.initiateResponse = [c \in Contents |-> randomUUID(t)]],
        t, "fatal")

\* initiateMultipartUpload throws FatalError: initializeNewUpload and handleUpload
\* pass it on to handleMessage.
initiateFailed(s, t) ==
  Throw([s EXCEPT !.hist.initiateFailed = TRUE,
                  !.hist.initiateFailedBeside =
                      @ \/ \E c \in Contents : s.uploads[c].status # "none"],
        t, "fatal")

InitiateFails ==
  \E t \in Tasks :
    /\ At(t, "initiate")
    /\ hist.faults < MaxFaults
    /\ Apply(initiateFailed(Fault(St), t))

\* initiateMultipartUpload returns, and the store.put of the first saveUploadState is
\* one IndexedDB rejects.
InitiateReturnsSaveRejected ==
  \E t \in Tasks :
    /\ At(t, "initiate")
    /\ hist.faults < MaxFaults
    /\ \E c \in Contents :
         /\ hist.assigned < MaxUploads
         /\ c = hist.assigned + 1
         /\ \E endpoint \in Endpoints(t) :
              Apply(initiateReturned(Fault(St), t, c, endpoint, FALSE))

\* The first saveUploadState of handleUpload completes: uploadParts starts.
FirstSaveReturns ==
  \E t \in Tasks :
    /\ AtDb(t, "save0")
    /\ Apply(uploadParts([StDb EXCEPT !.hist.saved0[tasks[t].c] =
                             @ \/ tasks[t].kind = "start"], t))

\* The first saveUploadState of handleUpload rethrows the error of the request:
\* handleUpload ends with it, before uploadParts and with the contentId registered.
FirstSaveFails ==
  \E t \in Tasks : AtDb(t, "save0Failed") /\ Apply(Throw(StDb, t, "storage"))

\* listUploadedParts returns the server's parts.
ListReturns ==
  \E t \in Tasks :
    /\ At(t, "list")
    /\ Apply(uploadPartsListed(St, t, getUploadedParts(St, tasks[t].c, TRUE)))

\* listUploadedParts fails.
ListFails ==
  \E t \in Tasks :
    /\ At(t, "list")
    /\ hist.faults < MaxFaults
    /\ Apply(uploadPartsListed(Fault(St), t, getUploadedParts(St, tasks[t].c, FALSE)))

\* getSignedUrl returns: the URL goes through transformToAcceleratedUrl and the PUT is
\* issued through fetchWithRetry with the abort signal.
SignedUrlReturns ==
  \E t \in Tasks :
    /\ At(t, "sign")
    /\ LET c == tasks[t].c IN
       Apply(fetchWithRetry(
               [St EXCEPT !.hist.urlWrong[c] =
                   @ \/ (transformToAcceleratedUrl(St) # (hist.ownEndpoint[c] /\ hist.large[c]))],
               t, RETRY_ATTEMPTS))

\* The part PUT is answered 2xx with an ETag.
PutSucceeds ==
  \E t \in Tasks :
    /\ At(t, "put")
    /\ ~controllers[t][tasks[t].c]
    /\ LET c == tasks[t].c
           p == tasks[t].pn
       IN Apply(partUploaded([St EXCEPT !.serverParts[c] = @ \cup {p},
                                        !.hist.acked[c] = @ \cup {p},
                                        !.hist.putOk[c][p] = Cap(@)], t, TRUE))

\* The part PUT is answered 2xx with an ETag, and the store.put of the saveUploadState
\* that follows is one IndexedDB rejects (quota, aborted transaction).
PutSucceedsSaveRejected ==
  \E t \in Tasks :
    /\ At(t, "put")
    /\ ~controllers[t][tasks[t].c]
    /\ hist.faults < MaxFaults
    /\ LET c == tasks[t].c
           p == tasks[t].pn
       IN Apply(partUploaded([Fault(St) EXCEPT !.serverParts[c] = @ \cup {p},
                                               !.hist.acked[c] = @ \cup {p},
                                               !.hist.putOk[c][p] = Cap(@)], t, FALSE))

\* The part PUT is answered with a status of CONFIG.RETRY.STATUS_CODES (503, say):
\* response.ok is false and ApiClient.uploadPart throws RetryableError after
\* fetchWithRetry returned.
PutFails ==
  \E t \in Tasks :
    /\ At(t, "put")
    /\ ~controllers[t][tasks[t].c]
    /\ hist.putFaults < MaxPutFaults
    /\ Apply(uploadPartCatch(PutFault(St), t, "failedPart"))

\* The part PUT is answered with a non-2xx status outside CONFIG.RETRY.STATUS_CODES
\* (400, 403): response.ok is false all the same, and ApiClient.uploadPart throws the
\* same RetryableError without looking at the status.
PutRefused ==
  \E t \in Tasks :
    /\ At(t, "put")
    /\ ~controllers[t][tasks[t].c]
    /\ hist.putFaults < MaxPutFaults
    /\ Apply(uploadPartCatch([PutFault(St) EXCEPT !.hist.refused[tasks[t].c] = TRUE],
                             t, "failedPart"))

\* fetch rejects with a network TypeError, which neither fetchWithRetry nor
\* UploadHandler.uploadPart retries.
PutBreaks ==
  \E t \in Tasks :
    /\ At(t, "put")
    /\ ~controllers[t][tasks[t].c]
    /\ hist.putFaults < MaxPutFaults
    /\ Apply(uploadPartCatch(PutFault(St), t, "error"))

\* The part PUT is answered 2xx without an ETag header: ApiClient.uploadPart throws a
\* plain Error("No ETag received") after fetchWithRetry returned.  The server has the part.
PutWithoutETag ==
  \E t \in Tasks :
    /\ At(t, "put")
    /\ ~controllers[t][tasks[t].c]
    /\ hist.putFaults < MaxPutFaults
    /\ LET c == tasks[t].c
           p == tasks[t].pn
       IN Apply(uploadPartCatch([PutFault(St) EXCEPT !.serverParts[c] = @ \cup {p},
                                                    !.hist.noETag[c] = TRUE], t, "error"))

\* The timer of fetchWithTimeout fires before the PUT is answered: AbortError, rethrown
\* as RetryableError("Request timed out") to the catch of fetchWithRetry.
PutTimesOut ==
  \E t \in Tasks :
    /\ At(t, "put")
    /\ ~controllers[t][tasks[t].c]
    /\ hist.putFaults < MaxPutFaults
    /\ Apply(fetchWithRetryCatch(PutFault(St), t, tasks[t].fr))

\* The cancel token fired while the PUT was in flight: fetch rejects with AbortError,
\* which fetchWithTimeout rethrows as RetryableError("Request timed out").
PutAborted ==
  \E t \in Tasks :
    /\ At(t, "put")
    /\ controllers[t][tasks[t].c]
    /\ Apply(fetchWithRetryCatch([St EXCEPT !.tasks[t].hit = TRUE], t, tasks[t].fr))

\* The cancel token fired after the server had stored the part and before its answer
\* reached fetch: the part is on the server, the driver sees the same AbortError.
PutAbortedAfterStore ==
  \E t \in Tasks :
    /\ At(t, "put")
    /\ controllers[t][tasks[t].c]
    /\ hist.faults < MaxFaults
    /\ LET c == tasks[t].c
           p == tasks[t].pn
       IN Apply(fetchWithRetryCatch([Fault(St) EXCEPT !.tasks[t].hit = TRUE,
                                                      !.serverParts[c] = @ \cup {p}],
                                    t, tasks[t].fr))

\* The CONFIG.RETRY.DELAY timer of fetchWithRetry fires: fetchWithRetry(retries - 1).
FetchDelayElapsed ==
  \E t \in Tasks : At(t, "fetchDelay") /\ Apply(fetchWithRetry(St, t, tasks[t].fr - 1))

\* The backoff timer of UploadHandler.uploadPart fires: uploadPart(retryCount + 1).
RetryDelayElapsed ==
  \E t \in Tasks :
    /\ At(t, "retryDelay")
    /\ Apply(apiUploadPart([St EXCEPT !.tasks[t].rc = @ + 1], t))

\* saveUploadState after a part completes.
PartSaveReturns ==
  \E t \in Tasks : AtDb(t, "savePart") /\ Apply(partSaved(StDb, t))

\* saveUploadState after a part rethrows the error of the request: the catch of
\* uploadParts takes it as it takes the failure of a part.
PartSaveFails ==
  \E t \in Tasks : AtDb(t, "savePartFailed") /\ Apply(uploadPartsCatch(StDb, t, "storage"))

\* completeMultipartUpload returns the location.
CompleteReturns ==
  \E t \in Tasks : At(t, "complete") /\ Apply(completeUploadDone(St, t))

\* completeMultipartUpload fails: FatalError leaves uploadParts outside its try.
CompleteFails ==
  \E t \in Tasks :
    /\ At(t, "complete")
    /\ hist.faults < MaxFaults
    /\ Apply(Throw([Fault(St) EXCEPT !.hist.completeFailed[tasks[t].c] = TRUE], t, "fatal"))

\* saveUploadState of completeUpload completes.
CompleteSaveReturns ==
  \E t \in Tasks : AtDb(t, "saveDone") /\ Apply(afterUploadParts(completeUploadSaved(StDb, t), t))

\* saveUploadState of handleUploadError (called from uploadParts) completes:
\* activeUploads.delete(contentId), then uploadParts rethrows.
ErrorSaveReturns ==
  \E t \in Tasks :
    /\ AtDb(t, "errSave")
    /\ Apply(Throw([StDb EXCEPT !.activeUploads[tasks[t].c] = 0], t, tasks[t].err))

\* saveUploadState of handleUploadError (called from handleResume) completes.
ResumeErrorSaveReturns ==
  \E t \in Tasks :
    /\ AtDb(t, "resumeErrSave")
    /\ Apply(Finish([StDb EXCEPT !.activeUploads[tasks[t].c] = 0], t))

\* message PAUSE_UPLOAD
PauseUpload ==
  /\ nextTask <= MaxTasks
  /\ \E c \in Contents : c <= hist.assigned /\ Apply(handlePause(Spawn(St), nextTask, c))

PauseSaveReturns ==
  \E t \in Tasks : AtDb(t, "pauseSave") /\ Apply(handlePauseSaved(StDb, t))

\* message RESUME_UPLOAD
ResumeUpload ==
  /\ nextTask <= MaxTasks
  /\ \E c \in Contents : c <= hist.assigned /\ Apply(handleResume(Spawn(St), nextTask, c))

ResumeLoadReturns ==
  \E t \in Tasks : AtDb(t, "resumeLoad") /\ Apply(handleResumeLoaded(StDb, t))

ResumeSaveReturns ==
  \E t \in Tasks : AtDb(t, "resumeSave") /\ Apply(getUploadStateForResume(StDb, t))

ResumeSecondLoadReturns ==
  \E t \in Tasks : AtDb(t, "resumeLoad2") /\ Apply(handleUploadResumed(StDb, t))

\* message CANCEL_UPLOAD
CancelUpload ==
  /\ nextTask <= MaxTasks
  /\ \E c \in Contents : c <= hist.assigned /\ Apply(handleCancel(Spawn(St), nextTask, c))

\* deleteUploadState completes: deleteChunks is issued (the chunks store is never written).
CancelDeleteReturns ==
  \E t \in Tasks : AtDb(t, "cancelDelete") /\ Apply(DbWait(StDb, t, "cancelChunks"))

\* deleteChunks completes: cancelUpload is requested from the server.
CancelChunksReturns ==
  \E t \in Tasks : AtDb(t, "cancelChunks") /\ Apply(Goto(StDb, t, "cancelServer"))

\* cancelUpload returns or fails; handleCancel goes on alike.
CancelServerReturns ==
  \E t \in Tasks : At(t, "cancelServer") /\ Apply(handleCancelDone(St, t))

\* activate -> loadOngoingUploads, online -> resumeAllUploads,
\* message GET_ACTIVE_UPLOADS -> handleGetActiveUploads
Scan ==
  /\ nextTask <= MaxTasks
  /\ \E kind \in ScanKinds : Apply(scan(Spawn(St), nextTask, kind))

ScanLoadReturns ==
  \E t \in Tasks : AtDb(t, "scanLoad") /\ Apply(scanLoop(StDb, t, 1))

Next ==
  \/ StartUpload
  \/ InitiateReturns
  \/ InitiateFails
  \/ FirstSaveReturns
  \/ ListReturns
  \/ ListFails
  \/ SignedUrlReturns
  \/ PutSucceeds
  \/ PutSucceedsSaveRejected
  \/ PutFails
  \/ PutTimesOut
  \/ PutBreaks
  \/ PutAborted
  \/ PutAbortedAfterStore
  \/ FetchDelayElapsed
  \/ RetryDelayElapsed
  \/ PartSaveReturns
  \/ PartSaveFails
  \/ CompleteReturns
  \/ CompleteFails
  \/ CompleteSaveReturns
  \/ ErrorSaveReturns
  \/ ResumeErrorSaveReturns
  \/ PauseUpload
  \/ PauseSaveReturns
  \/ ResumeUpload
  \/ ResumeLoadReturns
  \/ ResumeSaveReturns
  \/ ResumeSecondLoadReturns
  \/ CancelUpload
  \/ CancelDeleteReturns
  \/ CancelChunksReturns
  \/ CancelServerReturns
  \/ Scan
  \/ ScanLoadReturns

Spec == Init /\ [][Next]_vars

\* ------------------------------------------------------------ cold restart
\* The worker after a cold restart: nothing in memory, the uploads store as earlier runs
\* left it.  A record left behind is in_progress or paused, with the parts saved so far,
\* all of them on the server.
RestartRecords ==
  {[status |-> st, parts |-> ps, progress |-> Progress(Len(ps)),
    maxConcurrentUploads |-> maxConcurrentUploads(ChunkConcurrent)] :
     st \in {"in_progress", "paused"}, ps \in {<<>>, <<1>>}}

InitRestart ==
  /\ activeUploads = [c \in Contents |-> 0]
  /\ uploads \in [Contents -> RestartRecords]
  /\ tasks = [t \in Tasks |-> NoTask]
  /\ states = [t \in Tasks |-> [c \in Contents |-> NoState]]
  /\ controllers = [t \in Tasks |-> [c \in Contents |-> FALSE]]
  /\ serverParts = [c \in Contents |-> {uploads[c].parts[i] : i \in 1..Len(uploads[c].parts)}]
  /\ dbQueue = <<>>
  /\ nextTask = 1
  /\ accelerationEndpoint = FALSE
  /\ hist = [InitHist EXCEPT !.assigned = NumContents, !.started = MaxStarts,
                             !.acked = serverParts,
                             !.atRestart = [c \in Contents |-> uploads[c].status]]

\* The events and answers after the restart: one lifecycle event or GET_ACTIVE_UPLOADS,
\* one RESUME_UPLOAD, at most one failing request, and no new upload.
RestartScan == hist.scans = 0 /\ Scan

RestartResume == (\A c \in Contents : hist.resumes[c] = 0) /\ ResumeUpload

RestartListFails == hist.putFaults = 0 /\ ListFails

RestartCompleteFails == hist.putFaults = 0 /\ CompleteFails

RestartPutBreaks == hist.putFaults = 0 /\ hist.faults = 0 /\ PutBreaks

RestartPutWithoutETag == hist.putFaults = 0 /\ hist.faults = 0 /\ PutWithoutETag

NextRestart ==
  \/ RestartScan
  \/ ScanLoadReturns
  \/ ListReturns
  \/ RestartListFails
  \/ SignedUrlReturns
  \/ PutSucceeds
  \/ RestartPutBreaks
  \/ RestartPutWithoutETag
  \/ PartSaveReturns
  \/ CompleteReturns
  \/ RestartCompleteFails
  \/ CompleteSaveReturns
  \/ ErrorSaveReturns
  \/ RestartResume
  \/ ResumeLoadReturns
  \/ ResumeSaveReturns
  \/ ResumeSecondLoadReturns
  \/ FirstSaveReturns

SpecRestart == InitRestart /\ [][NextRestart]_vars

\* ------------------------------------------------------ several uploads
\* Two uploads side by side, of files below and above MIN_SIZE, every request
\* succeeding: what one upload leaves in the shared ApiClient meets the other.
StartUploadAnySize ==
  /\ nextTask <= MaxTasks
  /\ hist.started < MaxStarts
  /\ \E big \in BOOLEAN : Apply(startUpload(Spawn(St), nextTask, big))

InitiateReturnsAny ==
  \E t \in Tasks :
    /\ At(t, "initiate")
    /\ \E c \in Contents :
         /\ c = hist.assigned + 1
         /\ \E endpoint \in Endpoints(t) : Apply(initiateReturned(St, t, c, endpoint, TRUE))

NextAccel ==
  \/ StartUploadAnySize
  \/ InitiateReturnsAny
  \/ FirstSaveReturns
  \/ ListReturns
  \/ SignedUrlReturns
  \/ PutSucceeds
  \/ PartSaveReturns
  \/ CompleteReturns
  \/ CompleteSaveReturns

SpecAccel == Init /\ [][NextAccel]_vars

\* ------------------------------------------------------ answers to a PUT
\* One upload and every answer a part PUT can get, with PAUSE_UPLOAD beside it.
NextRetry ==
  \/ StartUpload
  \/ InitiateReturns
  \/ FirstSaveReturns
  \/ ListReturns
  \/ SignedUrlReturns
  \/ PutSucceeds
  \/ PutFails
  \/ PutRefused
  \/ PutTimesOut
  \/ PutBreaks
  \/ PutAborted
  \/ FetchDelayElapsed
  \/ RetryDelayElapsed
  \/ PartSaveReturns
  \/ CompleteReturns
  \/ CompleteSaveReturns
  \/ ErrorSaveReturns
  \/ PauseUpload
  \/ PauseSaveReturns

SpecRetry == Init /\ [][NextRetry]_vars

\* ------------------------------------------------- the start of an upload
\* One upload with every command, where the first save and the completion may fail and
\* every part PUT succeeds unless the cancel token fires.
NextStart ==
  \/ StartUpload
  \/ InitiateReturns
  \/ InitiateReturnsSaveRejected
  \/ InitiateFails
  \/ FirstSaveReturns
  \/ FirstSaveFails
  \/ ListReturns
  \/ SignedUrlReturns
  \/ PutSucceeds
  \/ PutAborted
  \/ FetchDelayElapsed
  \/ RetryDelayElapsed
  \/ PartSaveReturns
  \/ CompleteReturns
  \/ CompleteFails
  \/ CompleteSaveReturns
  \/ ErrorSaveReturns
  \/ ResumeErrorSaveReturns
  \/ PauseUpload
  \/ PauseSaveReturns
  \/ ResumeUpload
  \/ ResumeLoadReturns
  \/ ResumeSaveReturns
  \/ ResumeSecondLoadReturns
  \/ CancelUpload
  \/ CancelDeleteReturns
  \/ CancelChunksReturns
  \/ CancelServerReturns

SpecStart == Init /\ [][NextStart]_vars

\* Every network and storage request eventually returns and every timer fires; no
\* command is bound to be sent.
ReturnsFairness ==
  /\ WF_vars(InitiateReturns \/ InitiateReturnsSaveRejected \/ InitiateFails)
  /\ WF_vars(FirstSaveReturns)
  /\ WF_vars(FirstSaveFails)
  /\ WF_vars(ListReturns)
  /\ WF_vars(SignedUrlReturns)
  /\ WF_vars(PutSucceeds)
  /\ WF_vars(PutAborted)
  /\ WF_vars(FetchDelayElapsed)
  /\ WF_vars(RetryDelayElapsed)
  /\ WF_vars(PartSaveReturns)
  /\ WF_vars(CompleteReturns \/ CompleteFails)
  /\ WF_vars(CompleteSaveReturns)
  /\ WF_vars(ErrorSaveReturns)
  /\ WF_vars(ResumeErrorSaveReturns)
  /\ WF_vars(PauseSaveReturns)
  /\ WF_vars(ResumeLoadReturns)
  /\ WF_vars(ResumeSaveReturns)
  /\ WF_vars(ResumeSecondLoadReturns)
  /\ WF_vars(CancelDeleteReturns)
  /\ WF_vars(CancelChunksReturns)
  /\ WF_vars(CancelServerReturns)

SpecStartFair == SpecStart /\ ReturnsFairness

\* ----------------------------------------------------------------- claims
Drivers(c) == {t \in Tasks : tasks[t].c = c /\ tasks[t].pc \in DriverPcs}

AtRest == \A t \in Tasks : tasks[t].pc \in {"idle", "done"}

CoversOnce(parts) ==
  \A p \in Parts : Cardinality({i \in 1..Len(parts) : parts[i] = p}) = 1

DistinctInRange(parts) ==
  /\ \A i \in 1..Len(parts) : parts[i] \in Parts
  /\ \A i, j \in 1..Len(parts) : i # j => parts[i] # parts[j]

\* C1: at every moment at most one part-driving loop (uploadParts) runs per contentId,
\* whatever commands and lifecycle events interleave.
C1_AtMostOneDriver == \A c \in Contents : Cardinality(Drivers(c)) <= 1

\* C2: whenever the persisted status is completed, and whenever completeMultipartUpload
\* is called, the parts list holds every part number of 1..totalParts exactly once.
C2_CompletedCoversOnce ==
  \A c \in Contents :
    /\ uploads[c].status = "completed" => CoversOnce(uploads[c].parts)
    /\ \A t \in Tasks :
         (tasks[t].c = c /\ tasks[t].pc = "complete") => CoversOnce(states[t][c].parts)

\* C3: in every reachable state the part numbers of every upload's parts list, in memory
\* and persisted, are pairwise distinct and within 1..totalParts.
C3_PartsDistinctInRange ==
  \A c \in Contents :
    /\ DistinctInRange(uploads[c].parts)
    /\ \A t \in Tasks : DistinctInRange(states[t][c].parts)

\* C4: once UPLOAD_CANCELLED has been emitted for a contentId, the uploads store holds
\* no record for it, in that state and in every later one.
C4_CancelledStaysDeleted ==
  \A c \in Contents : hist.cancelled[c] => uploads[c].status = "none"

\* C5: CANCEL_UPLOAD for a contentId with a persisted record that is not registered
\* deletes the record, cancels on the server and emits UPLOAD_CANCELLED: it is never
\* dropped without effect.
C5_CancelUnregisteredPurges == \A c \in Contents : ~hist.cancelIgnored[c]

\* C6: a contentId in the registry has persisted status in_progress.  Stated outside the
\* windows in which a handler has saved a new status and not yet deregistered: no
\* handler is suspended between such a save and its activeUploads.delete.
Deregistering(c) ==
  \E t \in Tasks :
    /\ tasks[t].c = c
    /\ tasks[t].pc \in {"pauseSave", "saveDone", "errSave", "resumeErrSave",
                        "cancelDelete", "cancelChunks", "cancelServer"}

C6_RegisteredIsInProgress ==
  \A c \in Contents :
    (activeUploads[c] # 0 /\ ~Deregistering(c)) => uploads[c].status = "in_progress"

\* The scenario of C7: one upload paused and resumed, every request succeeding, no
\* second RESUME_UPLOAD and no lifecycle resume of it.
PauseResumeOnly(c) ==
  hist.faults = 0 /\ hist.putFaults = 0 /\ hist.scans = 0 /\ hist.resumes[c] <= 1

\* C7: after PAUSE_UPLOAD then RESUME_UPLOAD with every request succeeding, the parts PUT
\* after the resume are exactly those not acknowledged before the pause, and over the
\* whole life of the upload no part is PUT successfully twice.
C7_ResumePutsOnlyMissing ==
  \A c \in Contents :
    PauseResumeOnly(c) =>
      /\ \A p \in Parts : hist.putOk[c][p] <= 1
      /\ hist.resumed[c] =>
           \A p \in Parts :
             hist.putAfterResume[c][p] <= (IF p \in hist.ackedAtPause[c] THEN 0 ELSE 1)
      /\ (hist.resumed[c] /\ uploads[c].status = "completed") =>
           \A p \in Parts \ hist.ackedAtPause[c] : hist.putAfterResume[c][p] = 1

\* The case of C7 happens: an upload was paused with some but not all parts acknowledged,
\* resumed, and completed by the resumed drive.
C7_Witness ==
  \E c \in Contents :
    /\ PauseResumeOnly(c)
    /\ hist.resumed[c]
    /\ uploads[c].status = "completed"
    /\ hist.ackedAtPause[c] # {}
    /\ hist.ackedAtPause[c] # Parts
    /\ \A p \in Parts \ hist.ackedAtPause[c] : hist.putAfterResume[c][p] = 1

\* C8: the progress values of the UPLOAD_PROGRESS events of a contentId never decrease.
C8_ProgressMonotonic ==
  [][\A c \in Contents : hist'.lastProgress[c] >= hist.lastProgress[c]]_vars

\* C9: when an upload has come to rest, its last UPLOAD_PROGRESS carried 100 if and only
\* if its final event is UPLOAD_COMPLETE.
C9_HundredIffComplete ==
  \A c \in Contents :
    AtRest =>
      (hist.lastProgress[c] = 100 <=> hist.lastEvent[c] = "UPLOAD_COMPLETE")

\* C10: the failure of a part PUT caused by the cancel token firing is never classified
\* retryable and retried: no RETRYING_CHUNK follows it.
C10_AbortNeverRetried == \A c \in Contents : ~hist.retryAfterFire[c]

\* C11: a part PUT aborted by the cancel token of PAUSE_UPLOAD or CANCEL_UPLOAD is not
\* surfaced as an error: no UPLOAD_ERROR is emitted for the contentId because of it.
C11_AbortNotSurfacedAsError == \A c \in Contents : ~hist.errorAfterFire[c]

\* C12: in one drive, at most RETRY.ATTEMPTS PUT requests are issued for a part whose
\* failures are retryable, the retries of fetchWithRetry and of uploadPart together.
C12_PutsWithinRetryBudget == \A t \in Tasks : tasks[t].puts <= RETRY_ATTEMPTS

\* C13: when a part PUT of a driver whose token has not fired fails for good, the upload
\* ends in the error state: once every handler has returned, and unless the upload was
\* cancelled or a RESUME_UPLOAD was sent, the persisted status is error, UPLOAD_ERROR
\* was emitted and the contentId is not registered.
C13_FailedPartEndsInError ==
  \A c \in Contents :
    (hist.partFailed[c] /\ AtRest /\ ~hist.cancelled[c] /\ hist.resumes[c] = 0) =>
      /\ uploads[c].status = "error"
      /\ hist.errorEmitted[c]
      /\ activeUploads[c] = 0

\* C14: a RESUME_UPLOAD sent after completeMultipartUpload failed, for an upload that no
\* driver is working on, starts a drive that reconciles and completes again: it is
\* never dropped without a drive.
C14_ResumeAfterCompleteFailure == \A c \in Contents : ~hist.resumeDropped[c]

\* C15: when initiateMultipartUpload or completeMultipartUpload fails with a FatalError
\* during START_UPLOAD, an UPLOAD_ERROR with retryable = false is emitted.
C15_FatalStartReported == hist.startFatal => hist.errorNotRetryable

\* C16: when initiateMultipartUpload fails during START_UPLOAD no upload state is
\* created: the registry and the uploads store are as before the command, and no
\* INITIATE_UPLOAD_RESPONSE is emitted.
C16_InitiateFailureCreatesNothing ==
  [][(~hist.initiateFailed /\ hist'.initiateFailed) =>
       /\ activeUploads' = activeUploads
       /\ uploads' = uploads
       /\ hist'.initiateResponse = hist.initiateResponse]_vars

\* The case of C16 happens: an initiate failed while another upload had its record.
C16_Witness ==
  /\ hist.initiateFailedBeside
  /\ \E c \in Contents : uploads[c].status # "none" /\ activeUploads[c] # 0

\* C17: RESUME_UPLOAD for a contentId whose persisted status is error moves it back to
\* in_progress and starts a drive: it is never dropped.
C17_ResumeFromError == \A c \in Contents : ~hist.errorResumeDropped[c]

\* C18: every change of the persisted status of an upload follows an edge of the state
\* machine: created in_progress, in_progress <-> paused, in_progress -> completed,
\* in_progress -> error, in_progress -> cancelled (record removed), error -> in_progress.
\* The removal of a paused record by a cancel is let through as well, so that what is
\* refuted is a change the state machine excludes under every reading.
StatusEdges ==
  {<<"none", "in_progress">>, <<"in_progress", "paused">>, <<"paused", "in_progress">>,
   <<"in_progress", "completed">>, <<"in_progress", "error">>, <<"in_progress", "none">>,
   <<"paused", "none">>, <<"error", "in_progress">>}

C18_StatusFollowsEdges ==
  [][\A c \in Contents :
       uploads'[c].status # uploads[c].status =>
         <<uploads[c].status, uploads'[c].status>> \in StatusEdges]_vars

\* C19: completed is terminal: a persisted status completed never changes again, and
\* after UPLOAD_COMPLETE no part PUT is issued and no UPLOAD_PAUSED, UPLOAD_ERROR,
\* UPLOAD_PROGRESS or second UPLOAD_COMPLETE is emitted for the contentId.
C19_CompletedIsTerminal ==
  [][\A c \in Contents :
       /\ uploads[c].status = "completed" => uploads'[c].status = "completed"
       /\ ~hist'.afterComplete[c]]_vars

\* C20: at the start of every drive the parts treated as already complete are the union
\* of the parts listUploadedParts returned and the parts of the local record; when
\* listUploadedParts fails they are the parts of the local record.
LocalParts(state) == {state.parts[i] : i \in 1..Len(state.parts)}

C20_SkipIsUnionWithLocal ==
  [][\A t \in Tasks :
       (tasks[t].pc = "list" /\ tasks'[t].pc # "list") =>
         LET c == tasks[t].c
             local == LocalParts(states[t][c])
         IN tasks'[t].skip \in {local \cup serverParts[c], local}]_vars

\* C21: RESUME_UPLOAD for a contentId that is in the registry is a no-op: it never
\* registers a new entry over the one that is there and starts no new driver.
C21_ResumeOfRegisteredIsNoOp == \A c \in Contents : ~hist.resumeOverRegistered[c]

\* C22: after PAUSE_UPLOAD was handled for an active upload the persisted status stays
\* paused until a later command: no step of the driver that was running overwrites it
\* with error or completed.  Stated for runs without lifecycle or GET_ACTIVE_UPLOADS
\* resumes, which drive a paused record without saving in_progress first.
C22_PausedNotOverwritten ==
  [][\A c \in Contents :
       (hist.scans = 0 /\ uploads[c].status = "paused") =>
         uploads'[c].status \in {"paused", "in_progress", "none"}]_vars

\* C23: an activate or online scan registers and drives every record it selects, also
\* when the resume of a record handled earlier in the scan fails: the scan never ends
\* with a selected record left unregistered.  Stated once every handler has returned,
\* for a record no RESUME_UPLOAD was sent for.
C23_ScanReachesEveryRecord ==
  \A c \in Contents : (AtRest /\ hist.resumes[c] = 0) => ~hist.scanAbandoned[c]

\* C24: after a cold restart the activate event starts no drive for a record persisted
\* as paused, and exactly one drive for each record persisted as in_progress: never two,
\* and one by the time every handler has returned.  Stated for records no RESUME_UPLOAD
\* was sent for.
C24_ActivateDrivesInProgressOnce ==
  \A c \in Contents :
    hist.resumes[c] = 0 =>
      /\ hist.atRestart[c] = "paused" => hist.activateDrives[c] = 0
      /\ hist.activateDrives[c] <= 1
      /\ (hist.activated /\ AtRest /\ hist.atRestart[c] = "in_progress") =>
           hist.activateDrives[c] = 1

\* C25: the UPLOAD_STATUS that GET_ACTIVE_UPLOADS emits for a record carries the status
\* the record had in the store when the command loaded it, whatever became of the
\* resume the command started for it.
C25_StatusIsAsLoaded == \A c \in Contents : ~hist.statusStale[c]

\* C26: the URL of a part PUT is rewritten to the acceleration host if and only if the
\* upload's own initiate response named an acceleration endpoint and its file is at
\* least MIN_SIZE: an endpoint returned for one upload never changes the URLs of another.
C26_RewriteFollowsOwnEndpoint == \A c \in Contents : ~hist.urlWrong[c]

\* C27: when saveUploadState fails after a successful part PUT the upload is not put into
\* the error state: the driver goes on with the next part (or completes) and no
\* UPLOAD_ERROR is emitted because of the storage failure.
C27_SaveFailureIsNotFatal ==
  [][\A t \in Tasks :
       (tasks[t].pc = "savePartFailed" /\ tasks'[t].pc # "savePartFailed") =>
         LET c == tasks[t].c IN
         /\ tasks'[t].pc \in {"sign", "complete"}
         /\ hist'.errorEmitted[c] = hist.errorEmitted[c]
         /\ uploads'[c].status = uploads[c].status]_vars

\* C28: in every reachable state the part PUTs in flight for one contentId (requests
\* issued and neither answered nor aborted) are at most the upload's
\* maxConcurrentUploads.
InFlight(c) ==
  {t \in Tasks : tasks[t].c = c /\ tasks[t].pc = "put" /\ ~controllers[t][c]}

C28_InFlightWithinLimit ==
  \A c \in Contents :
    \A t \in InFlight(c) : Cardinality(InFlight(c)) <= states[t][c].maxConcurrentUploads

\* C29: the contentId carried by INITIATE_UPLOAD_RESPONSE is the content id the server
\* assigned in initiateMultipartUpload, the one under which the upload is registered,
\* persisted and reported in its later events.
C29_ResponseCarriesServerId ==
  \A c \in Contents : hist.initiateResponse[c] # 0 => hist.initiateResponse[c] = c

\* C30: a part PUT answered 2xx without an ETag is never retried and never appended to
\* parts: the driver stops, UPLOAD_ERROR with retryable = false is emitted and the
\* persisted status becomes error.
C30_NoETagIsFatal ==
  [][\A c \in Contents :
       (~hist.noETag[c] /\ hist'.noETag[c]) =>
         /\ \A t \in Tasks :
              (tasks[t].c = c /\ tasks[t].pc = "put" /\ tasks'[t].pc # "put") =>
                /\ tasks'[t].pc \in {"errSave", "resumeErrSave", "done"}
                /\ tasks'[t].pc = "errSave" => states'[t][c].parts = states[t][c].parts
         /\ hist'.errorEmitted[c]
         /\ hist'.errorNotRetryable
         /\ uploads'[c].status = "error"]_vars

\* C31: a part PUT answered with a non-2xx status outside {408, 429, 500, 502, 503, 504}
\* (400 or 403) is not retried: the driver stops and the upload is put in error at once.
C31_RefusedPutIsNotRetried ==
  [][\A c \in Contents :
       (~hist.refused[c] /\ hist'.refused[c]) =>
         /\ \A t \in Tasks :
              (tasks[t].c = c /\ tasks[t].pc = "put" /\ tasks'[t].pc # "put") =>
                tasks'[t].pc \in {"errSave", "done"}
         /\ hist'.errorEmitted[c]]_vars

\* C32: within one drive the RETRYING_CHUNK events of a part are numbered 1, 2, ...
\* without gaps, are at most RETRY.ATTEMPTS, and the k-th carries nextAttemptDelay =
\* min(1000 * 2^(k-1), 30000); a part whose PUT is answered 503 twice and then succeeds
\* yields two RETRYING_CHUNK with delays 1000 and 2000 and then one CHUNK_UPLOADED.
C32_RetryingChunkNumbering ==
  /\ [](\A t \in Tasks :
          /\ Len(tasks[t].retrying) <= RETRY_ATTEMPTS
          /\ \A k \in 1..Len(tasks[t].retrying) :
               tasks[t].retrying[k] =
                 <<k, IF 1000 * 2 ^ (k - 1) < 30000 THEN 1000 * 2 ^ (k - 1) ELSE 30000>>)
  /\ [][\A t \in Tasks :
          (/\ tasks[t].pc = "put" /\ tasks[t].puts = 3 /\ tasks[t].rc = 2
           /\ tasks'[t].pc \in {"savePart", "savePartFailed"}) =>
            /\ tasks'[t].retrying = <<<<1, 1000>>, <<2, 2000>>>>
            /\ hist'.lastEvent[tasks[t].c] = "CHUNK_UPLOADED"]_vars

\* The case of C32 happens: the PUT of a part failed twice with a status answer, was
\* retried twice (RETRYING_CHUNK 1 and 2) and then succeeded (CHUNK_UPLOADED).
C32_Witness ==
  /\ \E t \in Tasks :
       /\ tasks[t].pc = "savePart"
       /\ tasks[t].retrying = <<<<1, 1000>>, <<2, 2000>>>>
       /\ hist.lastEvent[tasks[t].c] = "CHUNK_UPLOADED"
       /\ hist.putFaults = 2

\* C33: the drive of START_UPLOAD issues no signed-URL request and no part PUT before the
\* UploadState was registered with status in_progress and its first save has succeeded:
\* the handler enters uploadParts only from the completion of that save, and a failed
\* first save ends the handler without a request.
C33_FirstSaveBeforeParts ==
  /\ [](\A t \in Tasks :
          (tasks[t].kind = "start" /\ tasks[t].pc \in DriverPcs) => hist.saved0[tasks[t].c])
  /\ [][\A t \in Tasks :
          /\ (tasks[t].pc = "initiate" /\ tasks'[t].pc \in {"save0", "save0Failed"}) =>
               LET c == tasks'[t].c IN
               /\ activeUploads'[c] = t
               /\ states'[t][c].status = "in_progress"
               /\ tasks'[t].pc = "save0" => uploads'[c].status = "in_progress"
          /\ (tasks[t].pc = "save0Failed" /\ tasks'[t].pc # "save0Failed") =>
               tasks'[t].pc = "done"]_vars

\* The case of C33 happens: the drive of a START_UPLOAD has a part PUT in flight, with
\* the record saved in_progress.
C33_Witness ==
  \E t \in Tasks :
    /\ tasks[t].kind = "start"
    /\ tasks[t].pc = "put"
    /\ hist.saved0[tasks[t].c]
    /\ uploads[tasks[t].c].status = "in_progress"

\* C34: CHUNK_UPLOADED for a part is emitted only after the part has been appended to
\* parts and the state persisted: when the first CHUNK_UPLOADED of part p is emitted, the
\* persisted record of the contentId already contains p.
C34_ChunkUploadedAfterPersist ==
  [][\A c \in Contents :
       \A p \in hist'.chunkUploaded[c] \ hist.chunkUploaded[c] :
         p \in LocalParts(uploads[c])]_vars

\* C35: the persisted parts list of a contentId is append-only: every version written to
\* the uploads store has the parts list persisted before it as a prefix.
IsPrefix(a, b) == Len(a) <= Len(b) /\ \A i \in 1..Len(a) : a[i] = b[i]

C35_PersistedPartsAppendOnly ==
  [][\A c \in Contents :
       (uploads[c].status # "none" /\ uploads'[c].status # "none") =>
         IsPrefix(uploads[c].parts, uploads'[c].parts)]_vars

\* C36: in every UPLOAD_PROGRESS event uploadedBytes is at most totalBytes, the size of
\* the file, also in the event of the final, short part.
C36_UploadedBytesWithinTotal == \A c \in Contents : hist.uploadedBytes[c] <= FileSize

\* C37: if every request eventually returns, a contentId placed in the registry
\* eventually leaves it: none stays registered for ever.  A run in which an initiate
\* request is never answered (the bounds on uploads and failures leave it no answer) is
\* outside the assumption and counts as satisfying the property.
Unanswered == \E t \in Tasks : tasks[t].pc = "initiate"

C37_RegisteredEventuallyLeaves ==
  \A c \in Contents : (activeUploads[c] # 0) ~> (activeUploads[c] = 0 \/ Unanswered)

\* C38: each failure that ends a drive produces exactly one UPLOAD_ERROR event for its
\* contentId, whichever command started the drive; in particular the failure of a
\* drive started by RESUME_UPLOAD is never announced by a second UPLOAD_ERROR.
C38_OneErrorPerFailure == \A c \in Contents : ~hist.errorRepeated[c]

\* C39: a driver whose cancel token has been fired never changes the registry entry or
\* the persisted status of a later registration of the same contentId: a step of such
\* a driver in its error handling (handleUploadError and its save), taken while another
\* invocation is registered for the contentId, leaves that registration in place and
\* does not turn the persisted status into error.
C39_StaleDriverSparesLaterRegistration ==
  [][\A t \in Tasks, c \in Contents :
       LET r == activeUploads[c] IN
       (/\ tasks[t].c = c /\ tasks[t].pc \in DriverPcs /\ controllers[t][c]
        /\ r # 0 /\ r # t
        /\ tasks'[t] # tasks[t] /\ tasks'[r] = tasks[r]
        /\ "errSave" \in {tasks[t].pc, tasks'[t].pc})
       => /\ activeUploads'[c] = r
          /\ (uploads'[c].status = "error" => uploads[c].status = "error")]_vars

====
